---------------------------- MODULE Spec2Model ----------------------------
(***************************************************************************)
(* Model of the orbital-visualisation notebook                             *)
(* (src/.ipynb_checkpoints/orbital_visualisation-checkpoint.ipynb).        *)
(*                                                                         *)
(* The notebook defines four functions (gen_mol, run_dft, calc_e, gen_orb) *)
(* and then runs a fixed sequence of cells: calc_e on the benzene block,   *)
(* geometry optimisation, a second SCF on the optimised molecule, a loop   *)
(* exporting six orbitals, and a viewer cell.                              *)
(*                                                                         *)
(* The specifications share the variables below:                           *)
(*   Spec      one top-to-bottom run of the notebook's cells;              *)
(*   FairSpec  the same run, in which every step that can execute does;    *)
(*   SpecOrb   a session calling gen_orb with arguments drawn from bounded *)
(*             sets;                                                       *)
(*   SpecPair  a session of successive gen_orb calls that keeps the call   *)
(*             before the last;                                            *)
(*   SpecMol   a session building molecules through gen_mol and calc_e    *)
(*             with arguments drawn from bounded sets;                     *)
(*   SpecLoad  a session calling gen_mol on coordinate blocks, well-formed *)
(*             or not;                                                     *)
(*   SpecTwice a session of successive gen_mol calls that keeps the call   *)
(*             before the last;                                            *)
(*   SpecDft   a session building molecules of the five blocks with        *)
(*             gen_mol and evaluating them with run_dft.                   *)
(*                                                                         *)
(* The library calls (pyscf, geomeTRIC, numpy, ase, nglview) are modelled  *)
(* by their effect at the call site: an SCF kernel that runs at most       *)
(* max_cycle cycles and returns with a converged flag (it does not raise), *)
(* an optimizer that stops at convergence or at the step cap and returns   *)
(* its molecule (it does not raise on the cap), numpy's column slicing     *)
(* (negative indices wrap, others raise IndexError), and file writes that  *)
(* replace the file at the path or raise OSError.                          *)
(***************************************************************************)
EXTENDS Integers, Sequences, FiniteSets, TLC

VARIABLES
    pc,        \* the cell / call of the notebook run that executes next
    error,     \* the exception that ended the last call ("none" if none)
    files,     \* the working directory: file name -> content
    heap,      \* number of Mole objects allocated so far (object identity)
    scf,       \* the KS object inside a running run_dft (NoValue outside)
    opt,       \* the optimizer engine inside a running optimize (NoValue outside)
    my_mf,     \* notebook global my_mf
    mol_eq,    \* notebook global mol_eq
    mf_eq,     \* notebook global mf_eq
    idx,       \* loop variable of the export loop
    exports,   \* the gen_orb requests issued so far, in order
    written,   \* names of the grid files written so far, in order
    opt_conv,  \* the optimizer's own convergence flag, which optimize drops
    view,      \* the viewer widget (NoValue until the viewer cell ran)
    want,      \* the configuration the caller of a builder asked for
    call,      \* the last call made in a session
    ncalls,    \* number of calls made in a session
    prev,      \* the call before the last one, in a session that keeps it
    shown,     \* the value the cell mf_eq.mo_coeff[21] displayed
    version    \* which of the two notebook versions of the source file runs

vars == <<pc, error, files, heap, scf, opt, my_mf, mol_eq, mf_eq, idx,
          exports, written, opt_conv, view, want, call, ncalls, prev, shown,
          version>>

runVars == <<scf, opt, my_mf, mol_eq, mf_eq, idx, exports, written, opt_conv,
            view, shown, version>>

NoValue == [none |-> TRUE]

-----------------------------------------------------------------------------
(* Bounds of the sessions. *)

MaxNmo == 2
MaxCalls == 2
MaxCharge == 2

-----------------------------------------------------------------------------
(* Python's str(int): decimal digits, '-' in front of a negative number. *)

Digit(d) ==
    CASE d = 0 -> "0" [] d = 1 -> "1" [] d = 2 -> "2" [] d = 3 -> "3"
      [] d = 4 -> "4" [] d = 5 -> "5" [] d = 6 -> "6" [] d = 7 -> "7"
      [] d = 8 -> "8" [] d = 9 -> "9"

RECURSIVE NatStr(_)
NatStr(n) == IF n < 10 THEN Digit(n) ELSE NatStr(n \div 10) \o Digit(n % 10)

str(n) == IF n < 0 THEN "-" \o NatStr(-n) ELSE NatStr(n)

-----------------------------------------------------------------------------
(* Coordinate blocks.  A block is the sequence of its lines (the text      *)
(* split at the line ends; the literals start and end with an empty line)  *)
(* and a line is the sequence of its whitespace-separated tokens.  A       *)
(* token that reads as a number carries its value, in units of 1e-5        *)
(* angstrom; any other token carries its text.                             *)

\* A token float() accepts.
N(v) == [num |-> TRUE, val |-> v, text |-> ""]

\* A token float() rejects.
W(t) == [num |-> FALSE, val |-> 0, text |-> t]

\* A line '<symbol> <x> <y> <z>'.
Line(symbol, x, y, z) == <<W(symbol), N(x), N(y), N(z)>>

benzene_coordinates ==
    << << >>,
       Line("C", -65914, -121034, 398683),
       Line("C", 73798, -121034, 402059),
       Line("C", -135771, -6, 396990),
       Line("C", 143653, -4, 403741),
       Line("C", -65915, 121024, 398685),
       Line("C", 73797, 121024, 402061),
       Line("H", -120447, -215520, 397369),
       Line("H", 128332, -215517, 403382),
       Line("H", -244839, -6, 394342),
       Line("H", 252722, -4, 406369),
       Line("H", -120448, 215509, 397373),
       Line("H", 128330, 215508, 403386),
       << >> >>

water_coords ==
    << << >>,
       Line("O", 93500, -5051, 4534),
       Line("H", 190288, -6684, 8881),
       Line("H", 65615, -37698, 91403),
       << >> >>

acrilic_coords ==
    << << >>,
       Line("O", 117295, -3672, -10353),
       Line("C", 251441, 5127, -954),
       Line("O", 308311, 79664, 76847),
       Line("C", 319653, -85674, -95545),
       Line("C", 453482, -89605, -99641),
       Line("H", 83846, -66895, -76391),
       Line("H", 261048, -148570, -161059),
       Line("H", 514133, -27061, -34494),
       Line("H", 505653, -155483, -168251),
       << >> >>

methane_coords ==
    << << >>,
       Line("C", 107177, 6228, -3114),
       Line("H", 216397, 6228, -3114),
       Line("H", 70771, 39892, -100430),
       Line("H", 70771, 73674, 74697),
       Line("H", 70770, -94881, 16390),
       << >> >>

cubane_coords ==
    << << >>,
       Line("C", 127115, -2372, 39178),
       Line("C", 23942, -113245, 65758),
       Line("C", -23997, -103602, -80046),
       Line("C", 79203, 7235, -106629),
       Line("C", -22905, 115260, -68959),
       Line("C", 26806, 105297, 82248),
       Line("C", -80213, -9702, 109834),
       Line("C", -129920, 295, -41366),
       Line("H", 230922, -6283, 69730),
       Line("H", 45145, -205943, 117548),
       Line("H", -41184, -188564, -144963),
       Line("H", 144659, 11026, -192798),
       Line("H", -41644, 206990, -123124),
       Line("H", 47197, 189181, 147411),
       Line("H", -144192, -16539, 196783),
       Line("H", -233125, 1339, -73694),
       << >> >>

\* The water block with a line of three tokens: 'H 1.90288 -0.06684'.
short_line_coords ==
    << << >>,
       Line("O", 93500, -5051, 4534),
       <<W("H"), N(190288), N(-6684)>>,
       Line("H", 65615, -37698, 91403),
       << >> >>

\* The water block with a line of five tokens: 'H 1.90288 -0.06684 0.08881 1'.
long_line_coords ==
    << << >>,
       Line("O", 93500, -5051, 4534),
       Line("H", 190288, -6684, 8881) \o <<N(100000)>>,
       Line("H", 65615, -37698, 91403),
       << >> >>

\* The water block with a coordinate that is a word: 'H 1.90288 abc 0.08881'.
word_line_coords ==
    << << >>,
       Line("O", 93500, -5051, 4534),
       <<W("H"), N(190288), W("abc"), N(8881)>>,
       Line("H", 65615, -37698, 91403),
       << >> >>

\* A block of n hydrogen atoms in a row.
HChain(n) ==
    << << >> >> \o [i \in 1..n |-> Line("H", 0, 0, 74000 * (i - 1))] \o << << >> >>

-----------------------------------------------------------------------------
(* The working directory. *)

\* Writing a file replaces whatever is at that path.
\* A write that creates the file only when the name is free.
Put_keep_existing(fs, name, content) ==
    [n \in (DOMAIN fs) \cup {name} |->
        IF n \in DOMAIN fs THEN fs[n] ELSE content]

\* Writing content to the file at name: the file is created or replaced.
Put(fs, name, content) ==
    [n \in (DOMAIN fs) \cup {name} |-> IF n = name THEN content ELSE fs[n]]

NoFiles == [n \in {} |-> NoValue]

-----------------------------------------------------------------------------
(* Molecules (gto.Mole) and gen_mol. *)

\* The lines of a block that Mole.build's parse keeps: those that are not
\* empty once stripped.
NonEmpty(coords) == SelectSeq(coords, LAMBDA l : Len(l) > 0)

\* dat[1:4] in str2atm: the second to the fourth token of a line, as far
\* as the line has them.  Tokens after the fourth are not read.
Coords(dat) == SubSeq(dat, 2, IF Len(dat) < 4 THEN Len(dat) ELSE 4)

\* What str2atm(line) raises: a coordinate float() rejects is handed to
\* eval, which raises on a word (NameError); fewer than three coordinates
\* are a ValueError.
str2atm_raises(dat) ==
    IF \E i \in 1..Len(Coords(dat)) : ~Coords(dat)[i].num THEN "NameError"
    ELSE IF Len(Coords(dat)) # 3 THEN "ValueError"
    ELSE "none"

\* str2atm(line): the symbol and the coordinates of one line.  pos is the
\* position the line gives; the library keeps the same position in Bohr.
str2atm(dat) ==
    [symbol |-> dat[1].text,
     pos    |-> [i \in 1..Len(Coords(dat)) |-> Coords(dat)[i].val]]

RECURSIVE FirstRaise(_, _)
FirstRaise(lines, i) ==
    IF i > Len(lines) THEN "none"
    ELSE IF str2atm_raises(lines[i]) # "none" THEN str2atm_raises(lines[i])
    ELSE FirstRaise(lines, i + 1)

\* What Mole.build's parse of mol.atom raises: the exception of the first
\* line that str2atm rejects.  (A block whose first line has fewer than
\* four tokens is read as a Z-matrix; no block here has one.)
format_atom_raises(coords) == FirstRaise(NonEmpty(coords), 1)

\* A parse that takes the first non-empty line for a title, as a reader
\* of the xyz format does, and makes no atom of it.
format_atom_titled(coords) ==
    LET lines == SubSeq(NonEmpty(coords), 2, Len(NonEmpty(coords)))
    IN  [i \in 1..Len(lines) |-> str2atm(lines[i])]

\* Mole.build's parse of mol.atom: one atom per non-empty line, in line
\* order.
format_atom(coords) ==
    LET lines == NonEmpty(coords)
    IN  [i \in 1..Len(lines) |-> str2atm(lines[i])]

\* gen_mol leaving the charge at Mole's default 0.
gen_mol_neutral(coords, basis, output, charge) ==
    [atom    |-> coords,
     basis   |-> basis,
     output  |-> output,
     verbose |-> 5,
     charge  |-> 0,
     _atom   |-> format_atom(coords),
     geom    |-> 0]

\* def gen_mol(coords, basis='def2-svp', output='pyscf.log', charge=0)
gen_mol(coords, basis, output, charge) ==
    [atom    |-> coords,
     basis   |-> basis,
     output  |-> output,
     verbose |-> 5,
     charge  |-> charge,
     _atom   |-> format_atom(coords),
     geom    |-> 0]

\* One Mole object kept between the calls, on which each call adds its
\* charge to the charge the object already has.
Alloc_accumulating(mol, h) == [id |-> h] @@ [mol EXCEPT !.charge = mol.charge * h]

\* A Mole object: the built molecule with the identity of its allocation
\* (mol = gto.Mole() makes a new object in every call).
Alloc(mol, h) == [id |-> h] @@ mol

\* What Mole.build leaves in the log file it opens for writing.
LogOf(mol) == [kind |-> "log", mol |-> mol.id, data |-> << >>]

\* A stage of the solver writing its diagnostics through mol.stdout, the
\* file that build opened at mol.output.
LogAppend(fs, mol, stage) ==
    [fs EXCEPT ![mol.output].data = Append(@, <<stage, mol.id>>)]

\* Nuclear charge of an element.
AtomicNumber(symbol) ==
    CASE symbol = "H" -> 1 [] symbol = "C" -> 6 [] symbol = "O" -> 8

RECURSIVE SumZ(_, _)
SumZ(atoms, i) ==
    IF i > Len(atoms) THEN 0 ELSE AtomicNumber(atoms[i].symbol) + SumZ(atoms, i + 1)

\* mol.tot_electrons(): the nuclear charges less the net charge.
tot_electrons(mol) == SumZ(mol._atom, 1) - mol.charge

\* A build that takes the spin from the electron count instead of
\* holding the count against spin 0: an odd count builds too.
Build_any_spin(m, h, fs, io_ok) ==
    IF ~io_ok
    THEN [raised |-> "OSError", files |-> fs, mol |-> NoValue]
    ELSE LET mol == Alloc(m, h)
             fs2 == Put(fs, m.output, LogOf(mol))
         IN  IF format_atom_raises(m.atom) # "none"
             THEN [raised |-> format_atom_raises(m.atom), files |-> fs2, mol |-> NoValue]
             ELSE IF tot_electrons(m) < 0
             THEN [raised |-> "RuntimeError", files |-> fs2, mol |-> NoValue]
             ELSE [raised |-> "none", files |-> fs2, mol |-> mol]

\* A build that opens the log for appending: what is in the file at
\* mol.output stays there.
Build_appending(m, h, fs, io_ok) ==
    IF ~io_ok
    THEN [raised |-> "OSError", files |-> fs, mol |-> NoValue]
    ELSE LET mol == Alloc(m, h)
             fs2 == IF m.output \in DOMAIN fs THEN fs ELSE Put(fs, m.output, LogOf(mol))
         IN  IF format_atom_raises(m.atom) # "none"
             THEN [raised |-> format_atom_raises(m.atom), files |-> fs2, mol |-> NoValue]
             ELSE IF tot_electrons(m) < 0 \/ tot_electrons(m) % 2 # 0
             THEN [raised |-> "RuntimeError", files |-> fs2, mol |-> NoValue]
             ELSE [raised |-> "none", files |-> fs2, mol |-> mol]

\* mol.build() on the attributes m, as object number h, in directory fs.
\* build opens mol.output for writing (replacing the file at that path)
\* before it parses mol.atom, and after the parse it rejects an electron
\* count that does not fit the default spin 0.
Build(m, h, fs, io_ok) ==
    IF ~io_ok
    THEN [raised |-> "OSError", files |-> fs, mol |-> NoValue]
    ELSE LET mol == Alloc(m, h)
             fs2 == Put(fs, m.output, LogOf(mol))
         IN  IF format_atom_raises(m.atom) # "none"
             THEN [raised |-> format_atom_raises(m.atom), files |-> fs2, mol |-> NoValue]
             ELSE IF tot_electrons(m) < 0 \/ tot_electrons(m) % 2 # 0
             THEN [raised |-> "RuntimeError", files |-> fs2, mol |-> NoValue]
             ELSE [raised |-> "none", files |-> fs2, mol |-> mol]

\* First line of calc_e(coords, basis='def2-svp', xc_func='b3lyp'):
\* mol = gen_mol(coords, basis=basis); output and charge take gen_mol's
\* defaults.
calc_e_mol(coords, basis, xc_func) == gen_mol(coords, basis, "pyscf.log", 0)

\* Number of basis functions of an element in a basis set.
BasisFunctions(symbol, basis) ==
    CASE basis = "def2-svp" -> (IF symbol = "H" THEN 5 ELSE 14)
      [] basis = "sto-3g"   -> (IF symbol = "H" THEN 1 ELSE 5)

RECURSIVE SumAO(_, _, _)
SumAO(atoms, basis, i) ==
    IF i > Len(atoms) THEN 0
    ELSE BasisFunctions(atoms[i].symbol, basis) + SumAO(atoms, basis, i + 1)

\* mol.nao: the number of atomic orbitals, which is also the number of
\* molecular orbitals (mo_coeff is nao x nao).
nao(mol) == SumAO(mol._atom, mol.basis, 1)

-----------------------------------------------------------------------------
(* Solved states (the KS object after kernel) and run_dft. *)

\* A KS object left with the solver's default cap of 50 cycles.
KS_default_cap(mol, xc_func) ==
    [mol |-> mol, xc |-> xc_func, max_cycle |-> 50,
     cycle |-> 0, converged |-> FALSE]

\* mf = mol.KS(); mf.xc = xc_func; mf.max_cycle = 300
KS(mol, xc_func) ==
    [mol |-> mol, xc |-> xc_func, max_cycle |-> 300,
     cycle |-> 0, converged |-> FALSE]

\* The mf that run_dft returns: the KS object as kernel left it.
Solved(ks) ==
    [mol |-> ks.mol, xc |-> ks.xc, max_cycle |-> ks.max_cycle,
     converged |-> ks.converged]

\* mf.kernel() on a system whose SCF needs `need` cycles to converge: the
\* loop stops at convergence or after max_cycle cycles, and it returns in
\* both cases.
kernel(ks, need) ==
    [ks EXCEPT !.cycle     = IF need <= ks.max_cycle THEN need ELSE ks.max_cycle,
               !.converged = need <= ks.max_cycle]

\* def run_dft(mol, xc_func='b3lyp'), up to the return: the KS object after
\* kernel.
run_dft(mol, xc_func, need) == kernel(KS(mol, xc_func), need)

\* mf.mo_coeff[r, c]: the coefficient of atomic orbital r in molecular
\* orbital c (0-based), a value of the solved state mf alone.
Coeff(mf, r, c) == <<mf.mol.id, mf.mol.geom, r, c>>

\* mf.mo_occ of the closed-shell state: two electrons in each of the
\* lowest tot_electrons // 2 orbitals, none in the others.
mo_occ(mf) ==
    [i \in 0..(nao(mf.mol) - 1) |->
        IF i < tot_electrons(mf.mol) \div 2 THEN 2 ELSE 0]

\* The number of occupied orbitals.
n_occ(mf) == Cardinality({i \in DOMAIN mo_occ(mf) : mo_occ(mf)[i] > 0})

\* numpy's bounds check of an index k into an axis of length n.
InRange(n, k) == -n <= k /\ k < n

\* numpy's reading of a negative index.
Wrap(n, k) == IF k < 0 THEN k + n ELSE k

\* mf.mo_coeff[:, k]: all rows of one column.
mo_coeff_col(mf, k) ==
    [r \in 0..(nao(mf.mol) - 1) |-> Coeff(mf, r, Wrap(nao(mf.mol), k))]

\* mf.mo_coeff[k]: all columns of one row.
mo_coeff_row(mf, k) ==
    [c \in 0..(nao(mf.mol) - 1) |-> Coeff(mf, Wrap(nao(mf.mol), k), c)]

-----------------------------------------------------------------------------
(* Files and gen_orb. *)

\* A file name built as the viewer cell's note words the pattern
\* (mol_name + orb_num + .cub), without the '_mol_' infix.
file_without_infix(mol_name, orb_num) == mol_name \o str(orb_num) \o ".cub"

\* A file name made from the orbital index alone.
file_index_only(mol_name, orb_num) == "mol_" \o str(orb_num) \o ".cub"

\* file = mol_name + '_mol_' + str(orb_num) + '.cub'
file(mol_name, orb_num) == mol_name \o "_mol_" \o str(orb_num) \o ".cub"

\* cubegen.orbital(mol, outfile, coeff): the grid of one coefficient vector
\* over the molecule.
Cube(mol, coeff) == [kind |-> "cube", mol |-> mol.id, data |-> coeff]

\* gen_orb taking orb_num as the 0-based column, without the shift by one.
gen_orb_unshifted(mol_name, orb_num, mf, fs, io_ok) ==
    IF ~InRange(nao(mf.mol), orb_num)
    THEN [raised |-> "IndexError", files |-> fs, wrote |-> << >>]
    ELSE IF ~io_ok
    THEN [raised |-> "OSError", files |-> fs, wrote |-> << >>]
    ELSE [raised |-> "none",
          files  |-> Put(fs, file(mol_name, orb_num),
                         Cube(mf.mol, mo_coeff_col(mf, orb_num))),
          wrote  |-> <<file(mol_name, orb_num)>>]

\* def gen_orb(mol_name, orb_num, mf), run on the directory fs; io_ok says
\* whether the directory accepts the write.  The arguments of
\* cubegen.orbital are evaluated first, so an index numpy rejects raises
\* before any file is opened.
gen_orb(mol_name, orb_num, mf, fs, io_ok) ==
    IF ~InRange(nao(mf.mol), orb_num - 1)
    THEN [raised |-> "IndexError", files |-> fs, wrote |-> << >>]
    ELSE IF ~io_ok
    THEN [raised |-> "OSError", files |-> fs, wrote |-> << >>]
    ELSE [raised |-> "none",
          files  |-> Put(fs, file(mol_name, orb_num),
                         Cube(mf.mol, mo_coeff_col(mf, orb_num - 1))),
          wrote  |-> <<file(mol_name, orb_num)>>]

-----------------------------------------------------------------------------
(* Geometries and the structure file.  Lengths are in units of 1e-7        *)
(* angstrom here, finer than the five decimals of the coordinate blocks,   *)
(* since the optimizer leaves coordinates that have more digits (the       *)
(* recorded mol_eq.atom_coords() has nine significant digits).             *)

\* The digits of a coordinate below 1e-5 angstrom at the geometry of
\* optimization cycle g: none at the built geometry, and a value between
\* -49 and 50 that varies with the cycle, the atom and the axis otherwise.
Residue(g, i, a) == IF g = 0 THEN 0 ELSE ((37 * g + 11 * i + 5 * a) % 100) - 49

\* mol.atom_coords() brought to angstrom: the position of every atom at
\* the molecule's geometry.
atom_coords(mol) ==
    [i \in 1..Len(mol._atom) |->
        [a \in 1..3 |-> 100 * mol._atom[i].pos[a] + Residue(mol.geom, i, a)]]

\* '%.<decimals>f' of a length: the nearest number with that many decimals
\* (5 decimals are 100 units, 8 decimals are below the unit).
Rounded(v, decimals) ==
    IF decimals >= 7 THEN v
    ELSE IF v >= 0 THEN ((v + 50) \div 100) * 100
    ELSE -(((-v + 50) \div 100) * 100)

\* A structure file written without the conversion of the stored
\* coordinates (Bohr) to angstrom: every length is about 1.89 times too
\* large.
tostring_bohr(mol, decimals) ==
    [kind    |-> "xyz",
     mol     |-> mol.id,
     natm    |-> Len(mol._atom),
     comment |-> "XYZ from PySCF",
     data    |-> [i \in 1..Len(mol._atom) |->
                    [symbol |-> mol._atom[i].symbol,
                     pos    |-> [a \in 1..3 |->
                                   Rounded(2 * atom_coords(mol)[i][a]
                                           - atom_coords(mol)[i][a] \div 9, decimals)]]]]

\* mol.tofile(xyz_file, format='xyz'): the atom count, a comment line and
\* one line per atom with the symbol and the coordinates in angstrom,
\* printed with a fixed number of decimals.
tostring(mol, decimals) ==
    [kind    |-> "xyz",
     mol     |-> mol.id,
     natm    |-> Len(mol._atom),
     comment |-> "XYZ from PySCF",
     data    |-> [i \in 1..Len(mol._atom) |->
                    [symbol |-> mol._atom[i].symbol,
                     pos    |-> [a \in 1..3 |->
                                   Rounded(atom_coords(mol)[i][a], decimals)]]]]

\* ase.io.read(xyz_file): the atoms of the first natm lines after the
\* comment, with their symbols and positions.
read(f) ==
    [symbols   |-> [i \in 1..f.natm |-> f.data[i].symbol],
     positions |-> [i \in 1..f.natm |-> f.data[i].pos]]

\* What an earlier run of the notebook left in the working directory: its
\* log, its six grid files and its structure file.
LeftBehind ==
    LET old == [Alloc(gen_mol(benzene_coordinates, "def2-svp", "pyscf.log", 0), 0)
                   EXCEPT !.geom = 3]
    IN  [n \in {"pyscf.log", "benzene_opt.xyz"} \cup {file("benzene", i) : i \in 16..21} |->
            IF n = "pyscf.log" THEN [kind |-> "log", mol |-> 0, data |-> << >>]
            ELSE IF n = "benzene_opt.xyz" THEN tostring(old, 5)
            ELSE [kind |-> "cube", mol |-> 0, data |-> << >>]]

-----------------------------------------------------------------------------
(* The notebook run (Spec): the cells in order.  A call that raises ends   *)
(* the run: pc becomes "halted" and error names the exception.             *)

Init ==
    /\ pc = "calc_e"
    /\ error = "none"
    /\ files \in {NoFiles, LeftBehind}
    /\ heap = 0
    /\ scf = NoValue
    /\ opt = NoValue
    /\ my_mf = NoValue
    /\ mol_eq = NoValue
    /\ mf_eq = NoValue
    /\ idx = 0
    /\ exports = << >>
    /\ written = << >>
    /\ opt_conv = FALSE
    /\ view = NoValue
    /\ want = NoValue
    /\ call = NoValue
    /\ ncalls = 0
    /\ prev = NoValue
    /\ shown = NoValue
    /\ version \in {1, 2}

Halt(exc) ==
    /\ pc' = "halted"
    /\ error' = exc

\* my_mf = calc_e(benzene_coordinates), first line of calc_e:
\* mol = gen_mol(coords, basis=basis).  Mole.build opens mol.output for
\* writing, which replaces the file at that path.
CalcE_GenMol ==
    /\ pc = "calc_e"
    /\ \E io_ok \in BOOLEAN :
          LET b == Build(calc_e_mol(benzene_coordinates, "def2-svp", "b3lyp"),
                         heap + 1, files, io_ok)
          IN  /\ files' = b.files
              /\ IF b.raised = "none"
                 THEN /\ heap' = heap + 1
                      /\ scf' = KS(b.mol, "b3lyp")
                      /\ pc' = "calc_e.run_dft"
                      /\ UNCHANGED error
                 ELSE /\ Halt(b.raised)
                      /\ UNCHANGED <<heap, scf>>
    /\ UNCHANGED <<opt, my_mf, mol_eq, mf_eq, idx, exports, written, opt_conv,
                   view, want, call, ncalls, prev, shown,
                   version>>

\* An SCF loop without the cap on its cycles.
ScfCycle_uncapped ==
    /\ pc \in {"calc_e.run_dft", "run_dft"}
    /\ ~scf.converged
    /\ \E conv \in BOOLEAN :
          scf' = [scf EXCEPT !.cycle = @ + 1, !.converged = conv]
    /\ UNCHANGED <<pc, error, files, heap, opt, my_mf, mol_eq, mf_eq, idx,
                   exports, written, opt_conv, view, want, call, ncalls, prev, shown,
                   version>>

\* One cycle of mf.kernel(): the loop runs while the cycle count is below
\* mf.max_cycle and the state is not converged.
ScfCycle ==
    /\ pc \in {"calc_e.run_dft", "run_dft"}
    /\ ~scf.converged
    /\ scf.cycle < scf.max_cycle
    /\ \E conv \in BOOLEAN :
          scf' = [scf EXCEPT !.cycle = @ + 1, !.converged = conv]
    /\ UNCHANGED <<pc, error, files, heap, opt, my_mf, mol_eq, mf_eq, idx,
                   exports, written, opt_conv, view, want, call, ncalls, prev, shown,
                   version>>

\* kernel has ended, converged or with the cycles used up.
KernelEnded == scf.converged \/ scf.cycle >= scf.max_cycle

\* The optimizer's own iteration cap, as its banner reports it.
GeometricMaxIter == 300

\* An engine that keeps the optimizer's own cap instead of the caller's.
Engine_own_cap(method, maxsteps, h) ==
    [mol |-> [method.mol EXCEPT !.id = h], cycle |-> 0,
     maxsteps |-> GeometricMaxIter, conv |-> FALSE]

\* An engine that works on method.mol itself instead of a copy.
Engine_in_place(method, maxsteps, h) ==
    [mol |-> method.mol, cycle |-> 0, maxsteps |-> maxsteps, conv |-> FALSE]

\* The optimizer engine that optimize(method, maxsteps) sets up: it works
\* on a copy of method.mol, counts its energy/gradient evaluations in
\* cycle and stops at maxsteps.
Engine(method, maxsteps, h) ==
    [mol |-> [method.mol EXCEPT !.id = h], cycle |-> 0, maxsteps |-> maxsteps,
     conv |-> FALSE]

\* run_dft returns mf inside calc_e, calc_e returns it and the cell assigns
\* my_mf; the next cell starts mol_eq = optimize(my_mf, maxsteps=100).
CalcE_Return ==
    /\ pc = "calc_e.run_dft"
    /\ KernelEnded
    /\ my_mf' = Solved(scf)
    /\ files' = LogAppend(files, scf.mol, "scf")
    /\ scf' = NoValue
    /\ opt' = Engine(Solved(scf), 100, heap + 1)
    /\ heap' = heap + 1
    /\ pc' = "optimize"
    /\ UNCHANGED <<error, mol_eq, mf_eq, idx, exports, written,
                   opt_conv, view, want, call, ncalls, prev, shown,
                   version>>

\* Whether the engine may evaluate another geometry.
MayStep(e) == e.cycle < e.maxsteps /\ e.cycle < GeometricMaxIter

\* One optimization cycle: the engine evaluates energy and gradient at the
\* current geometry (an SCF of its own, which must converge) and the
\* optimizer either finds its criteria met or displaces the atoms.
OptStep ==
    /\ pc = "optimize"
    /\ ~opt.conv
    /\ MayStep(opt)
    /\ \E scf_ok \in BOOLEAN, conv \in BOOLEAN :
          IF scf_ok
          THEN /\ opt' = [opt EXCEPT !.cycle = @ + 1,
                                     !.conv = conv,
                                     !.mol.geom = opt.cycle]
               /\ UNCHANGED <<pc, error>>
          ELSE /\ Halt("RuntimeError")
               /\ UNCHANGED opt
    /\ UNCHANGED <<files, heap, scf, my_mf, mol_eq, mf_eq, idx, exports,
                   written, opt_conv, view, want, call, ncalls, prev, shown,
                   version>>

\* An optimize that raises when the steps ran out before convergence.
OptReturn_raising ==
    /\ pc = "optimize"
    /\ opt.conv \/ ~MayStep(opt)
    /\ IF opt.conv
       THEN /\ mol_eq' = opt.mol
            /\ scf' = KS(opt.mol, "b3lyp")
            /\ pc' = "run_dft"
            /\ UNCHANGED error
       ELSE /\ Halt("NotConvergedError")
            /\ UNCHANGED <<mol_eq, scf>>
    /\ opt_conv' = opt.conv
    /\ files' = LogAppend(files, opt.mol, "geomopt")
    /\ UNCHANGED <<heap, opt, my_mf, mf_eq, idx, exports,
                   written, view, want, call, ncalls, prev, shown,
                   version>>

\* A pipeline that exports right after the optimizer, from the state it
\* already has, without a new evaluation at the optimized geometry.
OptReturn_skipping ==
    /\ pc = "optimize"
    /\ opt.conv \/ ~MayStep(opt)
    /\ mol_eq' = opt.mol
    /\ opt_conv' = opt.conv
    /\ files' = LogAppend(files, opt.mol, "geomopt")
    /\ mf_eq' = my_mf
    /\ idx' = 16
    /\ pc' = "export"
    /\ UNCHANGED <<error, heap, opt, scf, my_mf, exports,
                   written, view, want, call, ncalls, prev, shown,
                   version>>

\* A cell that evaluates the molecule of my_mf again, at the geometry the
\* optimization started from, instead of the molecule optimize returned.
OptReturn_initial_geometry ==
    /\ pc = "optimize"
    /\ opt.conv \/ ~MayStep(opt)
    /\ mol_eq' = opt.mol
    /\ opt_conv' = opt.conv
    /\ files' = LogAppend(files, opt.mol, "geomopt")
    /\ scf' = KS(my_mf.mol, "b3lyp")
    /\ pc' = "run_dft"
    /\ UNCHANGED <<error, heap, opt, my_mf, mf_eq, idx, exports,
                   written, view, want, call, ncalls, prev, shown,
                   version>>

\* optimize returns the engine's molecule, whether the optimizer converged
\* or ran out of steps; the cell goes on with mf_eq = run_dft(mol_eq).
OptReturn ==
    /\ pc = "optimize"
    /\ opt.conv \/ ~MayStep(opt)
    /\ mol_eq' = opt.mol
    /\ opt_conv' = opt.conv
    /\ files' = LogAppend(files, opt.mol, "geomopt")
    /\ scf' = KS(opt.mol, "b3lyp")
    /\ pc' = "run_dft"
    /\ UNCHANGED <<error, heap, opt, my_mf, mf_eq, idx, exports,
                   written, view, want, call, ncalls, prev, shown,
                   version>>

\* Python's range(a, b).
range(a, b) == a..(b - 1)

\* A loop written for 0-based orbital numbers: one lower at both ends.
ExportRange_zero_based == range(15, 21)

\* A loop that takes the upper end of the range as included.
ExportRange_inclusive == 16..22

\* for idx in range(16,22)
ExportRange == range(16, 22)

\* mf_eq = run_dft(mol_eq) returns; the export loop starts with the first
\* index of its range.
RunDft_Return ==
    /\ pc = "run_dft"
    /\ KernelEnded
    /\ mf_eq' = Solved(scf)
    /\ files' = LogAppend(files, scf.mol, "scf")
    /\ scf' = NoValue
    /\ idx' = CHOOSE i \in ExportRange : \A j \in ExportRange : i <= j
    /\ pc' = "export"
    /\ UNCHANGED <<error, heap, opt, my_mf, mol_eq, exports, written,
                   opt_conv, view, want, call, ncalls, prev, shown,
                   version>>

\* One iteration of: for idx in range(16,22): gen_orb('benzene', idx, mf_eq)
ExportStep ==
    /\ pc = "export"
    /\ idx \in ExportRange
    /\ \E io_ok \in BOOLEAN :
          LET r == gen_orb("benzene", idx, mf_eq, files, io_ok)
          IN  /\ exports' = Append(exports, [mol_name |-> "benzene", orb_num |-> idx,
                                             mf |-> mf_eq])
              /\ files' = r.files
              /\ written' = written \o r.wrote
              /\ IF r.raised = "none"
                 THEN /\ idx' = idx + 1
                      /\ UNCHANGED <<pc, error>>
                 ELSE /\ Halt(r.raised)
                      /\ UNCHANGED idx
    /\ UNCHANGED <<heap, scf, opt, my_mf, mol_eq, mf_eq, opt_conv, view, want,
                   call, ncalls, prev, shown,
                   version>>

\* The loop is over; the next cell is mf_eq.mo_coeff[21].
ExportDone ==
    /\ pc = "export"
    /\ idx \notin ExportRange
    /\ pc' = "mo_coeff"
    /\ UNCHANGED <<error, files, heap, scf, opt, my_mf, mol_eq, mf_eq, idx,
                   exports, written, opt_conv, view, want, call, ncalls, prev, shown,
                   version>>

\* The cell mf_eq.mo_coeff[21]: an integer index on the matrix selects
\* along its first axis, so the cell shows a row.  The viewer cell comes
\* next; it starts with the write of the structure file in the first
\* version of the notebook and with the read of that file in the second.
ShowCoeff ==
    /\ pc = "mo_coeff"
    /\ IF InRange(nao(mf_eq.mol), 21)
       THEN /\ shown' = [vector |-> mo_coeff_row(mf_eq, 21)]
            /\ pc' = IF version = 1 THEN "tofile" ELSE "view"
            /\ UNCHANGED error
       ELSE /\ Halt("IndexError")
            /\ UNCHANGED shown
    /\ UNCHANGED <<files, heap, scf, opt, my_mf, mol_eq, mf_eq, idx, exports,
                   written, opt_conv, view, want, call, ncalls, prev, version>>

\* mol_eq.tofile(xyz_file, format='xyz'); the library prints five or
\* eight decimals, depending on its version.
ToFile ==
    /\ pc = "tofile"
    /\ \E io_ok \in BOOLEAN, decimals \in {5, 8} :
          IF io_ok
          THEN /\ files' = Put(files, "benzene_opt.xyz", tostring(mol_eq, decimals))
               /\ pc' = "view"
               /\ UNCHANGED error
          ELSE /\ Halt("OSError")
               /\ UNCHANGED files
    /\ UNCHANGED <<heap, scf, opt, my_mf, mol_eq, mf_eq, idx, exports, written,
                   opt_conv, view, want, call, ncalls, prev, shown,
                   version>>

\* A viewer cell whose add_surface calls go to view[0], the structure.
Viewer_on_structure ==
    /\ pc = "view"
    /\ IF "benzene_mol_17.cub" \in DOMAIN files /\ "benzene_opt.xyz" \in DOMAIN files
       THEN /\ view' = [structure  |-> read(files["benzene_opt.xyz"]),
                        components |-> <<"benzene_opt.xyz", "benzene_mol_17.cub">>,
                        surfaces   |-> << [component |-> 0, color |-> "blue",
                                           opacity |-> 50, isolevel |-> 5],
                                          [component |-> 0, color |-> "red",
                                           opacity |-> 50, isolevel |-> -5] >>,
                        camera     |-> "orthographic"]
            /\ pc' = "done"
            /\ UNCHANGED error
       ELSE /\ Halt("FileNotFoundError")
            /\ UNCHANGED view
    /\ UNCHANGED <<files, heap, scf, opt, my_mf, mol_eq, mf_eq, idx, exports,
                   written, opt_conv, want, call, ncalls, prev, shown,
                   version>>

\* Components of the view are numbered from 0 (view[0] is the structure,
\* view[1] the component add_component added); opacity and isolevel are in
\* hundredths.
\* ase_mol = read(xyz_file); view = nv.show_ase(ase_mol);
\* view.add_component(cube_file_path); two add_surface calls on view[1].
Viewer ==
    /\ pc = "view"
    /\ IF "benzene_mol_17.cub" \in DOMAIN files /\ "benzene_opt.xyz" \in DOMAIN files
       THEN /\ view' = [structure  |-> read(files["benzene_opt.xyz"]),
                        components |-> <<"benzene_opt.xyz", "benzene_mol_17.cub">>,
                        surfaces   |-> << [component |-> 1, color |-> "blue",
                                           opacity |-> 50, isolevel |-> 5],
                                          [component |-> 1, color |-> "red",
                                           opacity |-> 50, isolevel |-> -5] >>,
                        camera     |-> "orthographic"]
            /\ pc' = "done"
            /\ UNCHANGED error
       ELSE /\ Halt("FileNotFoundError")
            /\ UNCHANGED view
    /\ UNCHANGED <<files, heap, scf, opt, my_mf, mol_eq, mf_eq, idx, exports,
                   written, opt_conv, want, call, ncalls, prev, shown,
                   version>>

Next ==
    \/ CalcE_GenMol
    \/ ScfCycle
    \/ CalcE_Return
    \/ OptStep
    \/ OptReturn
    \/ RunDft_Return
    \/ ExportStep
    \/ ExportDone
    \/ ShowCoeff
    \/ ToFile
    \/ Viewer

Spec == Init /\ [][Next]_vars

\* The run with every call it starts returning: each SCF cycle, optimizer
\* step, file write and cell that can execute does execute.
FairSpec == Spec /\ WF_vars(Next)

-----------------------------------------------------------------------------
(* Sessions: the notebook's functions called with arguments drawn from     *)
(* bounded sets.  Each call is a cell of its own, so a call that raises    *)
(* does not stop the next one.                                             *)

InitSession ==
    /\ pc = "session"
    /\ error = "none"
    /\ files = NoFiles
    /\ heap = 0
    /\ scf = NoValue
    /\ opt = NoValue
    /\ my_mf = NoValue
    /\ mol_eq = NoValue
    /\ mf_eq = NoValue
    /\ idx = 0
    /\ exports = << >>
    /\ written = << >>
    /\ opt_conv = FALSE
    /\ view = NoValue
    /\ want = NoValue
    /\ call = NoValue
    /\ ncalls = 0
    /\ prev = NoValue
    /\ shown = NoValue
    /\ version = 1

Labels == {"benzene", "benzene_mol_1"}

\* Orbital indices a session asks for: around zero and around the orbital
\* count of the small molecule, and the index the viewer cell names.
Indices == (-(MaxNmo + 1)..(MaxNmo + 1)) \cup {17}

BlockNames == {"benzene", "water", "hchain"}

BlockOf(name) ==
    CASE name = "benzene" -> benzene_coordinates
      [] name = "water"   -> water_coords
      [] name = "acrilic" -> acrilic_coords
      [] name = "methane" -> methane_coords
      [] name = "cubane"  -> cubane_coords
      [] name = "hchain"  -> HChain(MaxNmo)
      [] name = "short"   -> short_line_coords
      [] name = "long"    -> long_line_coords
      [] name = "word"    -> word_line_coords

\* Solved states a session exports from: a chain of MaxNmo hydrogen atoms
\* in a minimal basis (MaxNmo orbitals) and benzene in def2-svp.
SolvedStates ==
    { Solved([KS(Alloc(gen_mol(HChain(MaxNmo), "sto-3g", "pyscf.log", 0), 1), "b3lyp")
                EXCEPT !.converged = TRUE]),
      Solved([KS(Alloc(gen_mol(benzene_coordinates, "def2-svp", "pyscf.log", 0), 2), "b3lyp")
                EXCEPT !.converged = TRUE]) }

\* A cell calling gen_orb(mol_name, orb_num, mf) with an index of indices.
GenOrbOver(indices) ==
    /\ pc = "session"
    /\ ncalls < MaxCalls
    /\ \E mol_name \in Labels, orb_num \in indices, mf \in SolvedStates,
          io_ok \in BOOLEAN :
          LET r == gen_orb(mol_name, orb_num, mf, files, io_ok)
          IN  /\ files' = r.files
              /\ error' = r.raised
              /\ call' = [fn |-> "gen_orb", mol_name |-> mol_name,
                          orb_num |-> orb_num, mf |-> mf, io_ok |-> io_ok,
                          raised |-> r.raised, wrote |-> r.wrote,
                          before |-> files]
    /\ ncalls' = ncalls + 1
    /\ UNCHANGED <<pc, heap, want>>
    /\ UNCHANGED runVars

GenOrbCall == GenOrbOver(Indices) /\ UNCHANGED prev

NextOrb == GenOrbCall

SpecOrb == InitSession /\ [][NextOrb]_vars

\* Successive export requests; the session keeps the request before the
\* last.  The indices are the rejected 0, the first and the last orbital of
\* the small molecule, and the index the viewer cell names.
PairIndices == {0, 1, MaxNmo, 17}

GenOrbAgain == GenOrbOver(PairIndices) /\ prev' = call

NextPair == GenOrbAgain

SpecPair == InitSession /\ [][NextPair]_vars

\* What a caller may ask of a builder: the configuration of the molecule.
Wants ==
    { [basis |-> b, charge |-> c, verbosity |-> o.verbosity, log_path |-> o.log_path] :
        b \in {"def2-svp", "sto-3g"},
        c \in 0..MaxCharge,
        o \in { [verbosity |-> 5, log_path |-> "pyscf.log"],
                [verbosity |-> 4, log_path |-> "run.log"] } }

\* A cell calling gen_mol(coords, basis=..., output=..., charge=...) for a
\* block of names and a configuration w of wants; gen_mol has no parameter
\* for the verbosity.
GenMolOver(names, wants) ==
    /\ pc = "session"
    /\ ncalls < MaxCalls
    /\ \E name \in names, w \in wants, io_ok \in BOOLEAN :
          LET b == Build(gen_mol(BlockOf(name), w.basis, w.log_path, w.charge),
                         heap + 1, files, io_ok)
          IN  /\ want' = w
              /\ files' = b.files
              /\ error' = b.raised
              /\ heap' = heap + 1
              /\ call' = [fn |-> "gen_mol", block |-> name, io_ok |-> io_ok,
                          args |-> [coords |-> name, basis |-> w.basis,
                                    output |-> w.log_path, charge |-> w.charge],
                          raised |-> b.raised, mol |-> b.mol, before |-> files]
    /\ ncalls' = ncalls + 1
    /\ UNCHANGED pc
    /\ UNCHANGED runVars

GenMolCall == GenMolOver(BlockNames, Wants) /\ UNCHANGED prev

\* A cell calling calc_e(coords, basis=..., xc_func='b3lyp') for the
\* configuration w; calc_e has parameters for the basis and the functional
\* only.  The molecule of the call is the one the returned mf holds.
CalcECall ==
    /\ pc = "session"
    /\ ncalls < MaxCalls
    /\ \E name \in BlockNames, w \in Wants, io_ok \in BOOLEAN, conv \in BOOLEAN :
          LET b == Build(calc_e_mol(BlockOf(name), w.basis, "b3lyp"),
                         heap + 1, files, io_ok)
          IN  /\ want' = w
              /\ files' = IF b.raised = "none"
                           THEN LogAppend(b.files, b.mol, "scf")
                           ELSE b.files
              /\ error' = b.raised
              /\ heap' = heap + 1
              /\ call' = [fn |-> "calc_e", block |-> name, io_ok |-> io_ok,
                          raised |-> b.raised,
                          mol |-> IF b.raised = "none"
                                  THEN Solved([KS(b.mol, "b3lyp") EXCEPT !.converged = conv]).mol
                                  ELSE NoValue,
                          before |-> files]
    /\ ncalls' = ncalls + 1
    /\ UNCHANGED <<pc, prev>>
    /\ UNCHANGED runVars

NextMol == GenMolCall \/ CalcECall

SpecMol == InitSession /\ [][NextMol]_vars

\* The five coordinate blocks of the notebook.
FiveBlocks == {"benzene", "acrilic", "methane", "water", "cubane"}

\* Blocks with a line that is not '<symbol> <x> <y> <z>'.
MalformedBlocks == {"short", "long", "word"}

\* A cell calling gen_mol on a block, well-formed or not, for an uncharged
\* molecule.
LoadCall ==
    /\ GenMolOver(FiveBlocks \cup MalformedBlocks, {w \in Wants : w.charge = 0})
    /\ UNCHANGED prev

NextLoad == LoadCall

SpecLoad == InitSession /\ [][NextLoad]_vars

\* A cell calling gen_mol after another; the session keeps the call before.
GenMolAgain == GenMolOver({"water", "hchain"}, Wants) /\ prev' = call

NextTwice == GenMolAgain

SpecTwice == InitSession /\ [][NextTwice]_vars

\* Builds with the defaults of gen_mol but for the charge.
ChargedWants ==
    { [basis |-> "def2-svp", charge |-> c, verbosity |-> 5, log_path |-> "pyscf.log"] :
        c \in (-MaxCharge)..MaxCharge }

\* A cell mol = gen_mol(coords, charge=c) on one of the five blocks.
BuildCall == GenMolOver(FiveBlocks, ChargedWants) /\ UNCHANGED prev

\* What a caller may ask of an energy evaluation: the functional and a
\* cap on the SCF cycles.
DftWants ==
    { [functional |-> x, max_iterations |-> n] :
        x \in {"b3lyp", "pbe"}, n \in {50, 300, 500} }

\* Numbers of cycles the SCF of a system may need to converge.
Needs == {1, 50, 51, 300, 301}

\* A cell mf = run_dft(mol, xc_func) on the molecule the cell before it
\* built or evaluated; run_dft has no parameter for the cap.
RunDftCall ==
    /\ pc = "session"
    /\ ncalls < MaxCalls
    /\ call # NoValue
    /\ call.raised = "none"
    /\ \E w \in DftWants, need \in Needs :
          LET ks == run_dft(call.mol, w.functional, need)
          IN  /\ want' = w
              /\ files' = LogAppend(files, call.mol, "scf")
              /\ error' = "none"
              /\ call' = [fn |-> "run_dft", mol |-> call.mol, mf |-> Solved(ks),
                          cycles |-> ks.cycle, need |-> need, raised |-> "none",
                          before |-> files]
    /\ ncalls' = ncalls + 1
    /\ UNCHANGED <<pc, heap, prev>>
    /\ UNCHANGED runVars

NextDft == BuildCall \/ RunDftCall

SpecDft == InitSession /\ [][NextDft]_vars

-----------------------------------------------------------------------------
(* Properties of gen_orb, checked under SpecOrb. *)

\* The last call of the session was gen_orb.
OrbCalled == pc = "session" /\ ncalls > 0 /\ call.fn = "gen_orb"

\* The decimal numerals of the indices a session asks for, written out.
Numeral(n) ==
    CASE n = 0 -> "0" [] n = 17 -> "17"
      [] n = 1 -> "1" [] n = 2 -> "2" [] n = 3 -> "3" [] n = 4 -> "4"
      [] n = 5 -> "5" [] n = 6 -> "6"
      [] n = -1 -> "-1" [] n = -2 -> "-2" [] n = -3 -> "-3" [] n = -4 -> "-4"
      [] n = -5 -> "-5" [] n = -6 -> "-6"

\* C1: gen_orb(L, i, mf) writes its grid to the file named
\* L + '_mol_' + decimal(i) + '.cub' and changes no other file: a call that
\* returns has written exactly that file, a call that raises has written
\* none; L = 'benzene', i = 17 gives 'benzene_mol_17.cub'.
C1_FileName ==
    OrbCalled =>
        LET f == call.mol_name \o "_mol_" \o Numeral(call.orb_num) \o ".cub"
        IN  /\ DOMAIN call.before \subseteq DOMAIN files
            /\ \A n \in DOMAIN files :
                  n # f => n \in DOMAIN call.before /\ files[n] = call.before[n]
            /\ call.raised = "none" =>
                  /\ call.wrote = <<f>>
                  /\ f \in DOMAIN files
                  /\ files[f].kind = "cube"
            /\ call.raised # "none" =>
                  /\ call.wrote = << >>
                  /\ files = call.before
            /\ (call.mol_name = "benzene" /\ call.orb_num = 17 /\ call.raised = "none")
                  => call.wrote = <<"benzene_mol_17.cub">>

\* gen_orb('benzene', 17, mf) returned and 'benzene_mol_17.cub' is there.
C1_Witness ==
    /\ OrbCalled
    /\ call.mol_name = "benzene"
    /\ call.orb_num = 17
    /\ call.raised = "none"
    /\ "benzene_mol_17.cub" \in DOMAIN files
    /\ "benzene_mol_17.cub" \notin DOMAIN call.before

\* C2: for 1 <= i <= (number of molecular orbitals), gen_orb does not
\* reject the index and the grid it writes is that of column i-1 (0-based)
\* of mf.mo_coeff, with every row of the matrix, over mf's molecule.
C2_Column ==
    (OrbCalled /\ 1 <= call.orb_num /\ call.orb_num <= nao(call.mf.mol)) =>
        /\ call.raised # "IndexError"
        /\ call.raised = "none" =>
              LET g == files[call.wrote[1]]
              IN  /\ g.mol = call.mf.mol.id
                  /\ DOMAIN g.data = 0..(nao(call.mf.mol) - 1)
                  /\ \A r \in DOMAIN g.data :
                        g.data[r] = Coeff(call.mf, r, call.orb_num - 1)

\* The highest orbital of the small molecule was exported: the last column.
C2_Witness ==
    /\ OrbCalled
    /\ call.raised = "none"
    /\ call.orb_num = MaxNmo
    /\ nao(call.mf.mol) = MaxNmo
    /\ files[call.wrote[1]].data[0] = Coeff(call.mf, 0, MaxNmo - 1)

\* C3: exporting index 0, or an index above the orbital count, into a
\* writable directory fails with the range error and writes no file.
C3_RangeError ==
    (OrbCalled /\ call.io_ok
        /\ (call.orb_num = 0 \/ call.orb_num > nao(call.mf.mol))) =>
        /\ call.raised = "IndexError"
        /\ call.wrote = << >>
        /\ files = call.before

\* Two export requests have been made, one after the other.
PairCalled ==
    /\ pc = "session"
    /\ prev # NoValue
    /\ prev.fn = "gen_orb"
    /\ call.fn = "gen_orb"

\* C22: when a request that wrote its file is followed by a request with
\* the same label and the same index that the directory accepts, the later
\* request returns without an exception, the directory has the same file
\* names as before it, and the file under the common name holds the grid of
\* the later request; every other file is as it was.
C22_LastWriteWins ==
    (PairCalled /\ prev.raised = "none"
        /\ call.mol_name = prev.mol_name /\ call.orb_num = prev.orb_num
        /\ call.io_ok /\ call.raised # "IndexError") =>
        LET f == prev.wrote[1]
        IN  /\ call.raised = "none"
            /\ error = "none"
            /\ call.wrote = <<f>>
            /\ f \in DOMAIN call.before
            /\ DOMAIN files = DOMAIN call.before
            /\ files[f] = Cube(call.mf.mol, mo_coeff_col(call.mf, call.orb_num - 1))
            /\ \A n \in DOMAIN files : n # f => files[n] = call.before[n]

\* The same file was written twice from two different solved states: the
\* grid of the first is gone.
C22_Witness ==
    /\ PairCalled
    /\ prev.raised = "none"
    /\ call.raised = "none"
    /\ call.mol_name = prev.mol_name
    /\ call.orb_num = prev.orb_num
    /\ call.mf.mol.id # prev.mf.mol.id
    /\ call.before[prev.wrote[1]].mol = prev.mf.mol.id
    /\ files[prev.wrote[1]].mol = call.mf.mol.id
    /\ files[prev.wrote[1]] # call.before[prev.wrote[1]]

-----------------------------------------------------------------------------
(* Properties of the notebook run, checked under Spec. *)

\* The export loop has run to its end.
LoopCompleted == idx \notin ExportRange /\ Len(exports) > 0

\* C4: a run issues six export requests, for the indices 16..21 in
\* increasing order, each with label 'benzene' and the solved state mf_eq;
\* when the loop has completed, the six files benzene_mol_16.cub ..
\* benzene_mol_21.cub have been written, each once, in that order.
C4_SixExports ==
    /\ Len(exports) <= 6
    /\ \A i \in 1..Len(exports) :
          exports[i] = [mol_name |-> "benzene", orb_num |-> 15 + i, mf |-> mf_eq]
    /\ LoopCompleted =>
          /\ Len(exports) = 6
          /\ written = <<"benzene_mol_16.cub", "benzene_mol_17.cub",
                         "benzene_mol_18.cub", "benzene_mol_19.cub",
                         "benzene_mol_20.cub", "benzene_mol_21.cub">>
          /\ \A i \in 1..6 : written[i] \in DOMAIN files

\* The loop has completed and the run reached its end.
C4_Witness ==
    /\ LoopCompleted
    /\ pc = "done"
    /\ Len(written) = 6
    /\ "benzene_mol_21.cub" \in DOMAIN files

\* C5: a solved state that run_dft / calc_e returned is a converged one,
\* and every orbital export reads a converged state.
C5_ConvergedOnly ==
    /\ my_mf # NoValue => my_mf.converged
    /\ mf_eq # NoValue => mf_eq.converged
    /\ \A i \in 1..Len(exports) : exports[i].mf.converged

\* The optimizer ran out of steps without meeting its criteria.
OptExhausted == pc = "optimize" /\ ~opt.conv /\ ~MayStep(opt)

\* C6: when the optimizer has not converged within its steps, optimize
\* raises nothing and returns the engine's last geometry, and the run goes
\* on with run_dft on that molecule; the energy evaluation and every export
\* use that molecule, and the molecule handed on has the attributes of a
\* built molecule and no more (no convergence status).
C6_SilentNonConvergence ==
    /\ [][OptExhausted =>
             /\ pc' = "run_dft"
             /\ error' = "none"
             /\ mol_eq' = opt.mol
             /\ mol_eq'.geom = opt.cycle - 1
             /\ scf'.mol = opt.mol]_vars
    /\ [](/\ mf_eq # NoValue => mf_eq.mol = mol_eq
          /\ \A i \in 1..Len(exports) : exports[i].mf.mol = mol_eq
          /\ mol_eq # NoValue => DOMAIN mol_eq = DOMAIN my_mf.mol)

\* The six orbitals were exported from a geometry the optimizer had not
\* converged on.
C6_Witness ==
    /\ mol_eq # NoValue
    /\ ~opt_conv
    /\ mol_eq.geom = 99
    /\ Len(written) = 6
    /\ pc = "done"

\* The SCF loop used up its cycles without converging.
ScfExhausted ==
    /\ pc \in {"calc_e.run_dft", "run_dft"}
    /\ ~scf.converged
    /\ scf.cycle >= scf.max_cycle

\* C7: when the SCF loop or the optimizer has used up its cycles or steps
\* without converging, the run halts there with a convergence failure.
C7_FailureHalts ==
    [][(ScfExhausted \/ OptExhausted) =>
          /\ pc' = "halted"
          /\ error' = "ConvergenceFailure"]_vars

\* C8: the optimizer runs with the caller's cap of 100 and never performs
\* more cycles than that; it takes no cycle once converged, and optimize
\* returns at convergence or with the cap used up.
C8_StepCap ==
    /\ [](opt # NoValue =>
             /\ opt.maxsteps = 100
             /\ opt.cycle <= 100
             /\ mol_eq # NoValue => (opt_conv \/ opt.cycle = 100))
    /\ [][(opt # NoValue /\ opt.conv) => opt' = opt]_vars

\* The optimizer used all 100 cycles and optimize returned.
C8_Witness ==
    /\ mol_eq # NoValue
    /\ opt.cycle = 100
    /\ ~opt_conv

\* C9: optimize leaves my_mf as calc_e returned it (its molecule with the
\* atoms, coordinates, basis and charge it was built with, and so its
\* energy and coefficients), and mol_eq is another molecule object.
C9_Frame ==
    /\ [][my_mf # NoValue => my_mf' = my_mf]_vars
    /\ [](my_mf # NoValue =>
             /\ my_mf.mol.atom = benzene_coordinates
             /\ my_mf.mol._atom = format_atom(benzene_coordinates)
             /\ my_mf.mol.geom = 0
             /\ my_mf.mol.basis = "def2-svp"
             /\ my_mf.mol.charge = 0)
    /\ [](opt # NoValue => opt.mol.id # my_mf.mol.id)
    /\ [](mol_eq # NoValue => mol_eq.id # my_mf.mol.id)

\* The optimizer displaced the atoms and returned; my_mf is as it was.
C9_Witness ==
    /\ mol_eq # NoValue
    /\ mol_eq.geom > 0
    /\ my_mf.mol.geom = 0
    /\ mf_eq # NoValue

\* C17: the indices the loop exports are the six highest occupied
\* orbitals of the exported state's molecule, n_occ-5 .. n_occ with n_occ =
\* tot_electrons/2 (42/2 = 21, so 16..21), each of them occupied and within
\* 1 .. number of molecular orbitals.
C17_HighestOccupied ==
    LET n == tot_electrons(mf_eq.mol) \div 2
    IN  /\ \A i \in 1..Len(exports) :
              /\ exports[i].orb_num \in (n - 5)..n
              /\ exports[i].orb_num \in 1..nao(exports[i].mf.mol)
              /\ mo_occ(exports[i].mf)[exports[i].orb_num - 1] = 2
        /\ LoopCompleted =>
              /\ tot_electrons(mol_eq) = 42
              /\ n = 21
              /\ n = n_occ(mf_eq)
              /\ {exports[i].orb_num : i \in 1..Len(exports)} = (n - 5)..n
              /\ mo_occ(mf_eq)[n] = 0

\* The loop has completed: its last export was orbital 21 of 114, the
\* highest occupied one.
C17_Witness ==
    /\ LoopCompleted
    /\ Len(exports) = 6
    /\ exports[6].orb_num = 21
    /\ n_occ(mf_eq) = 21
    /\ nao(mf_eq.mol) = 114

\* C18: the viewer has two iso-surfaces, both on view[1], the component
\* of the grid file, and none on the structure: a blue one at +0.05 and a
\* red one at -0.05, each with opacity 0.5; the levels are opposite.
C18_TwoSurfaces ==
    view # NoValue =>
        /\ Len(view.surfaces) = 2
        /\ \A i \in 1..Len(view.surfaces) :
              /\ view.surfaces[i].component = 1
              /\ view.components[view.surfaces[i].component + 1] = "benzene_mol_17.cub"
              /\ view.surfaces[i].opacity = 50
        /\ view.surfaces[1].color = "blue"
        /\ view.surfaces[1].isolevel = 5
        /\ view.surfaces[2].color = "red"
        /\ view.surfaces[2].isolevel = -5
        /\ view.surfaces[1].isolevel + view.surfaces[2].isolevel = 0

\* The viewer cell ran at the end of a run that wrote the grid file.
C18_Witness ==
    /\ pc = "done"
    /\ view # NoValue
    /\ Len(view.components) = 2
    /\ "benzene_mol_17.cub" \in DOMAIN files

\* C19: the grid files are named mol_name + orb_num + '.cub', so that for
\* every export the loop made, the path built from that pattern names a
\* file the loop wrote.
C19_DocumentedPattern ==
    LoopCompleted =>
        \A i \in 1..Len(exports) :
            LET cube_file_path == exports[i].mol_name \o str(exports[i].orb_num) \o ".cub"
            IN  /\ cube_file_path \in DOMAIN files
                /\ written[i] = cube_file_path

\* C20: the vector the cell mf_eq.mo_coeff[21] shows is the coefficient
\* vector of one molecular orbital: it is a column mo_coeff[:, k] of the
\* matrix whose columns gen_orb exports.
C20_ShownIsOrbital ==
    shown # NoValue =>
        \E k \in 0..(nao(mf_eq.mol) - 1) : shown.vector = mo_coeff_col(mf_eq, k)

\* The absolute value of a length.
Abs(v) == IF v < 0 THEN -v ELSE v

\* C21: the structure that the viewer cell reads back from
\* 'benzene_opt.xyz' after writing mol_eq there has mol_eq's atom count,
\* its element symbols in its atom order, and every coordinate within 1e-4
\* angstrom (1000 units) of mol_eq's.
C21_RoundTrip ==
    (version = 1 /\ view # NoValue) =>
        /\ Len(view.structure.symbols) = Len(mol_eq._atom)
        /\ Len(view.structure.positions) = Len(mol_eq._atom)
        /\ \A i \in 1..Len(mol_eq._atom) :
              /\ view.structure.symbols[i] = mol_eq._atom[i].symbol
              /\ \A a \in 1..3 :
                    Abs(view.structure.positions[i][a] - atom_coords(mol_eq)[i][a]) <= 1000

\* The structure was read back from a file with five decimals after an
\* optimization that moved the atoms: some coordinate was rounded.
C21_Witness ==
    /\ version = 1
    /\ view # NoValue
    /\ mol_eq.geom > 0
    /\ Len(view.structure.symbols) = 12
    /\ view.structure.positions # atom_coords(mol_eq)

\* The file names in a sequence of names.
Names(seq) == {seq[i] : i \in 1..Len(seq)}

\* The place of a cell or call in the notebook, top to bottom.
StageOf(p) ==
    CASE p = "calc_e"         -> 1
      [] p = "calc_e.run_dft" -> 2
      [] p = "optimize"       -> 3
      [] p = "run_dft"        -> 4
      [] p = "export"         -> 5
      [] p = "mo_coeff"       -> 6
      [] p = "tofile"         -> 7
      [] p = "view"           -> 8
      [] p = "done"           -> 9
      [] p = "halted"         -> 10

\* C23 as stated: the exporter comes right after the optimizer, so that no
\* energy evaluation runs once the optimizer has returned mol_eq, and the
\* viewer takes in only what the exporter produced, so that every file the
\* view shows was written by the export loop.
C23_AsClaimed ==
    /\ mol_eq # NoValue => scf = NoValue
    /\ view # NoValue =>
          \A i \in 1..Len(view.components) : view.components[i] \in Names(written)

\* C23: the steps run top to bottom, each at most once: molecule build,
\* energy evaluation, optimization, a second energy evaluation on the
\* optimized molecule, export loop, the mo_coeff cell, the viewer cell (write
\* of the structure file in the first version, then read and render); a
\* step is followed by the next one or by the halt.  The optimizer works on
\* a copy of the first evaluation's molecule, the second evaluation on the
\* molecule the optimizer returned, every export on the result of the
\* second evaluation, and the view on the grid file the export loop wrote
\* for index 17 together with the structure file, which in the first
\* version holds the molecule the optimizer returned.
C23_StageOrder ==
    /\ [][pc' # pc =>
            \/ pc' = "halted"
            \/ StageOf(pc') = StageOf(pc) + 1
            \/ version = 2 /\ pc = "mo_coeff" /\ pc' = "view"]_vars
    /\ [](pc = "optimize" =>
            /\ opt.mol._atom = my_mf.mol._atom
            /\ opt.mol.id # my_mf.mol.id)
    /\ [](mf_eq # NoValue => mf_eq.mol = mol_eq)
    /\ [](\A k \in 1..Len(exports) : exports[k].mf = mf_eq)
    /\ [](view # NoValue =>
            /\ view.components = <<"benzene_opt.xyz", "benzene_mol_17.cub">>
            /\ "benzene_mol_17.cub" \in Names(written)
            /\ files["benzene_mol_17.cub"] = Cube(mf_eq.mol, mo_coeff_col(mf_eq, 16))
            /\ view.structure = read(files["benzene_opt.xyz"])
            /\ version = 1 =>
                  \E decimals \in {5, 8} :
                      files["benzene_opt.xyz"] = tostring(mol_eq, decimals))

\* A run of the first version went through all steps: the second
\* evaluation ran on the optimizer's molecule, six exports were made from
\* it, and the view shows a file the export loop did not write.
C23_Witness ==
    /\ pc = "done"
    /\ version = 1
    /\ Len(exports) = 6
    /\ mf_eq.mol = mol_eq
    /\ mol_eq.id # my_mf.mol.id
    /\ view.components[1] \notin Names(written)
    /\ view.components[2] \in Names(written)

\* A call that raised ended the run where it was: nothing ran after it.  For
\* the export of index idx that means the exports made are those of the
\* indices up to idx, the files of the lower indices are as they were
\* written, and there is no view.
ExceptionsHalt ==
    /\ error # "none" => pc = "halted"
    /\ pc = "halted" =>
          /\ error # "none"
          /\ view = NoValue
    /\ (pc = "halted" /\ Len(exports) > 0 /\ shown = NoValue) =>
          /\ idx \in ExportRange
          /\ Len(exports) = idx - 15
          /\ exports[Len(exports)].orb_num = idx
          /\ written = [k \in 1..(idx - 16) |-> file("benzene", 15 + k)]
          /\ \A j \in ExportRange :
                j < idx => files[file("benzene", j)]
                              = Cube(mf_eq.mol, mo_coeff_col(mf_eq, j - 1))

\* An energy evaluation that did not converge ended the run: no step works
\* on its result.
ScfFailureHalts ==
    /\ (my_mf # NoValue /\ ~my_mf.converged) => pc = "halted"
    /\ (mf_eq # NoValue /\ ~mf_eq.converged) => pc = "halted"

\* C24: every failure halts the run where it occurs and no later step
\* executes: a call that raised (build, optimization, export of index k,
\* structure write or read) and an energy evaluation that failed to
\* converge alike.
C24_EveryFailureHalts == ExceptionsHalt /\ ScfFailureHalts

\* C25: the files the view was made from were written by this run:
\* 'benzene_opt.xyz' holds the molecule the optimizer of this run returned,
\* and 'benzene_mol_17.cub' was written by the export loop from this run's
\* solved state; in both versions of the notebook.
C25_ReadsOwnFiles ==
    view # NoValue =>
        /\ files["benzene_opt.xyz"].mol = mol_eq.id
        /\ \E decimals \in {5, 8} :
              view.structure = read(tostring(mol_eq, decimals))
        /\ "benzene_mol_17.cub" \in Names(written)
        /\ files["benzene_mol_17.cub"].mol = mf_eq.mol.id

\* The run is over: the view is made or the run has halted.
Terminated == pc \in {"done", "halted"}

\* C26: a run whose single steps all return comes to its end, by making
\* the view or by halting at a failure; an SCF invocation runs at most 300
\* cycles, the optimizer at most 100 steps (the max_steps of the call), and
\* the export loop makes at most six iterations, exactly six when it
\* completes.
C26_Terminates ==
    /\ <>Terminated
    /\ [](scf # NoValue => scf.cycle <= 300)
    /\ [](opt # NoValue => opt.cycle <= 100)
    /\ [](Len(exports) <= 6)
    /\ [](StageOf(pc) > StageOf("export") /\ pc # "halted" => Len(exports) = 6)

\* A run that came to the view after an SCF invocation that used all of
\* its cycles and an optimization that used all of its steps.
C26_Witness ==
    /\ pc = "done"
    /\ ~mf_eq.converged
    /\ opt.cycle = 100
    /\ ~opt_conv
    /\ Len(exports) = 6

-----------------------------------------------------------------------------
(* Properties of the builders, checked under SpecMol. *)

\* The last call of the session built a molecule.
Built == pc = "session" /\ ncalls > 0 /\ call.fn \in {"gen_mol", "calc_e"}
            /\ call.raised = "none"

\* C10 as claimed: a built molecule carries the basis, charge, verbosity
\* and log destination of the caller's configuration, through gen_mol and
\* through calc_e.
C10_AsClaimed ==
    Built =>
        /\ call.mol.basis = want.basis
        /\ call.mol.charge = want.charge
        /\ call.mol.verbose = want.verbosity
        /\ call.mol.output = want.log_path

\* C10 as amended: a molecule built through gen_mol carries the caller's
\* basis, charge and log destination, and verbosity 5; one built through
\* calc_e carries the caller's basis, charge 0, log destination 'pyscf.log'
\* and verbosity 5.
C10_Configuration ==
    Built =>
        /\ call.mol.verbose = 5
        /\ call.mol.basis = want.basis
        /\ call.fn = "gen_mol" =>
              /\ call.mol.charge = want.charge
              /\ call.mol.output = want.log_path
        /\ call.fn = "calc_e" =>
              /\ call.mol.charge = 0
              /\ call.mol.output = "pyscf.log"

\* gen_mol built a molecule with a charge, a log destination and a basis
\* that are not the defaults, for a caller who asked for verbosity 4.
C10_Witness ==
    /\ Built
    /\ call.fn = "gen_mol"
    /\ want.charge = 2
    /\ call.mol.charge = 2
    /\ call.mol.output = "run.log"
    /\ call.mol.basis = "sto-3g"
    /\ want.verbosity = 4

\* The last call of the session was a builder whose log could be opened.
LogOpened ==
    /\ pc = "session"
    /\ ncalls > 0
    /\ call.fn \in {"gen_mol", "calc_e"}
    /\ call.io_ok

\* The log path of the last call: gen_mol's output argument, and gen_mol's
\* default 'pyscf.log' for calc_e.
LogPath == IF call.fn = "gen_mol" THEN call.args.output ELSE "pyscf.log"

\* C13: every builder call replaces the file at its log path (the caller's
\* path for gen_mol, 'pyscf.log' by default and for every calc_e run):
\* after any sequence of calls the file at that path is one log, it holds
\* only what the latest call's molecule wrote (nothing of what was there
\* before the call), and no other file has changed.
C13_LogOverwritten ==
    LogOpened =>
        /\ LogPath \in DOMAIN files
        /\ files[LogPath].kind = "log"
        /\ files[LogPath].mol = heap
        /\ \A i \in 1..Len(files[LogPath].data) : files[LogPath].data[i][2] = heap
        /\ (LogPath \in DOMAIN call.before) =>
              /\ call.before[LogPath].mol < heap
              /\ \A i \in 1..Len(call.before[LogPath].data) :
                    call.before[LogPath].data[i][2] < heap
        /\ \A n \in DOMAIN files :
              n # LogPath => n \in DOMAIN call.before /\ files[n] = call.before[n]
        /\ DOMAIN call.before \subseteq DOMAIN files

\* A second calc_e run found the log of the first with its SCF diagnostics
\* and left a log that holds its own SCF diagnostics only.
C13_Witness ==
    /\ LogOpened
    /\ call.fn = "calc_e"
    /\ call.raised = "none"
    /\ "pyscf.log" \in DOMAIN call.before
    /\ call.before["pyscf.log"].data = << <<"scf", 1>> >>
    /\ files["pyscf.log"].data = << <<"scf", 2>> >>

-----------------------------------------------------------------------------
(* Properties of the parse of coordinate blocks, checked under SpecLoad. *)

\* The last call of the session was gen_mol.
MolCalled == pc = "session" /\ ncalls > 0 /\ call.fn = "gen_mol"

\* The number of non-empty lines among the first i lines of a block.
Rank(block, i) == Cardinality({j \in 1..i : block[j] # << >>})

\* C14: a molecule built from a well-formed block with N non-empty lines
\* has N atoms, and the atom at position k has the symbol and the three
\* coordinates of the k-th non-empty line: nothing is reordered, merged or
\* dropped; the benzene block gives 12 atoms although it has 14 lines.
C14_AtomsInLineOrder ==
    (MolCalled /\ call.block \in FiveBlocks /\ call.raised = "none") =>
        LET block == BlockOf(call.block)
        IN  /\ Len(call.mol._atom) = Rank(block, Len(block))
            /\ \A i \in 1..Len(block) :
                  block[i] # << >> =>
                      /\ call.mol._atom[Rank(block, i)].symbol = block[i][1].text
                      /\ call.mol._atom[Rank(block, i)].pos
                            = <<block[i][2].val, block[i][3].val, block[i][4].val>>
            /\ call.block = "benzene" => Len(call.mol._atom) = 12

\* The benzene block was built: 12 atoms, the first a carbon, the last a
\* hydrogen.
C14_Witness ==
    /\ MolCalled
    /\ call.block = "benzene"
    /\ call.raised = "none"
    /\ Len(call.mol._atom) = 12
    /\ call.mol._atom[1] = [symbol |-> "C", pos |-> <<-65914, -121034, 398683>>]
    /\ call.mol._atom[12] = [symbol |-> "H", pos |-> <<128330, 215508, 403386>>]

\* C15: a block with a line of the wrong token count or with a coordinate
\* that is not a number makes gen_mol fail with a parse error, with no
\* molecule built and no file of the working directory changed.
C15_ParseFailsFirst ==
    (MolCalled /\ call.io_ok /\ call.block \in MalformedBlocks) =>
        /\ call.raised \in {"ValueError", "NameError"}
        /\ call.mol = NoValue
        /\ files = call.before

-----------------------------------------------------------------------------
(* Properties of run_dft, checked under SpecDft. *)

\* The last call of the session was run_dft.
DftCalled == pc = "session" /\ ncalls > 0 /\ call.fn = "run_dft"

\* C11 as claimed: run_dft runs the solver with the caller's functional
\* and the caller's iteration cap, and the solver performs at most that
\* many cycles.
C11_AsClaimed ==
    DftCalled =>
        /\ call.mf.xc = want.functional
        /\ call.mf.max_cycle = want.max_iterations
        /\ call.cycles <= want.max_iterations

\* C11 as amended: run_dft runs the solver with the caller's functional
\* and a cap of 300 cycles whatever cap the caller has in mind; the solver
\* performs at most 300 cycles and returns unconverged when the system
\* needs more.
C11_FixedCap ==
    DftCalled =>
        /\ call.mf.xc = want.functional
        /\ call.mf.max_cycle = 300
        /\ call.cycles <= 300
        /\ call.cycles <= call.need
        /\ call.mf.converged <=> call.need <= 300

\* A caller who had a cap of 50 in mind got 300 cycles of 'pbe'.
C11_Witness ==
    /\ DftCalled
    /\ want.max_iterations = 50
    /\ want.functional = "pbe"
    /\ call.mf.xc = "pbe"
    /\ call.cycles = 300
    /\ ~call.mf.converged

-----------------------------------------------------------------------------
(* Properties of successive gen_mol calls, checked under SpecTwice. *)

\* The last two calls of the session were gen_mol with the same arguments.
SameArguments ==
    /\ pc = "session"
    /\ prev # NoValue
    /\ prev.fn = "gen_mol"
    /\ call.fn = "gen_mol"
    /\ prev.args = call.args

C16_ClosedShell ==
    /\ (MolCalled /\ call.raised = "none") =>
          tot_electrons(call.mol) % 2 = 0
    /\ (MolCalled /\ call.io_ok /\ call.args.charge % 2 # 0) =>
          call.raised = "RuntimeError"
    /\ DftCalled =>
          /\ tot_electrons(call.mf.mol) % 2 = 0
          /\ 2 * n_occ(call.mf) = tot_electrons(call.mf.mol)

\* The water block with charge 2 was built and evaluated: 8 electrons in
\* 4 occupied orbitals.
C16_Witness ==
    /\ DftCalled
    /\ call.mf.mol.charge = 2
    /\ Len(call.mf.mol._atom) = 3
    /\ tot_electrons(call.mf.mol) = 8
    /\ n_occ(call.mf) = 4

=============================================================================
